---- MODULE Spec2Model ----
(***************************************************************************)
(* Model of src/index.ts: the SigpairAdmin client (createUser,             *)
(* genUserToken), the request executor handleRequest, and main.            *)
(*                                                                         *)
(* Strings are TLA+ strings, template literals are \o concatenations.      *)
(* JavaScript values are tagged records so that numbers, strings, null and *)
(* undefined can live in one variable.  An async function is cut at its    *)
(* awaits: every call slot walks idle -> built -> awaiting -> settled ->   *)
(* returned | failed.                                                      *)
(***************************************************************************)
EXTENDS Integers, Sequences, FiniteSets, TLC

VARIABLES
    ctor,      \* the arguments the client was constructed with (never written)
    client,    \* the SigpairAdmin instance: [baseUrl, adminToken]
    pc,        \* pc[c]: position of domain call c
    op,        \* op[c]: "createUser" | "genUserToken" | "none"
    args,      \* args[c]: the arguments of call c
    built,     \* built[c]: [url, headers] returned by createPostRequest
    sent,      \* sent[c]: the requests call c handed to axios.post, in order
    reply,     \* reply[c]: what the network did with call c's exchange
    hr,        \* hr[c]: settlement of the promise handleRequest returned
    out,       \* out[c]: settlement of the promise the domain method returned
    mpc,       \* position of main
    userId,    \* main's local userId
    printed    \* what main wrote with console.log, in order

vars == <<ctor, client, pc, op, args, built, sent, reply, hr, out, mpc, userId, printed>>

callVars == <<pc, op, args, built, sent, reply, hr, out>>
mainVars == <<mpc, userId, printed>>

(***************************************************************************)
(* Bounds                                                                  *)
(***************************************************************************)
MaxCalls == 2

Calls == 1..MaxCalls

(***************************************************************************)
(* JavaScript values                                                       *)
(***************************************************************************)
Undefined == [type |-> "undefined"]
Null == [type |-> "null"]
Num(n) == [type |-> "number", num |-> n]
Str(s) == [type |-> "string", str |-> s]
Obj(f) == [type |-> "object", fields |-> f]
Nothing == [type |-> "nothing"]

Nullish(v) == v.type \in {"undefined", "null"}

\* `${v}` for the values that reach a template literal in this file
TemplateStr(v) ==
    CASE v.type = "undefined" -> "undefined"
      [] v.type = "null" -> "null"
      [] v.type = "number" -> ToString(v.num)
      [] v.type = "string" -> v.str
      [] v.type \in {"Error", "TypeError", "AxiosError"} -> v.type \o ": " \o v.message

\* v[k] on a decoded body: undefined when the object has no such field
Field(v, k) == IF k \in DOMAIN v.fields THEN v.fields[k] ELSE Undefined

\* promise settlements
Pending == [state |-> "pending"]
Fulfilled(v) == [state |-> "fulfilled", value |-> v]
Rejected(e) == [state |-> "rejected", reason |-> e]

Error(m) == [type |-> "Error", message |-> m]
TypeError(m) == [type |-> "TypeError", message |-> m]
NoResponse == Undefined
AxiosError(m, resp) == [type |-> "AxiosError", message |-> m, response |-> resp]

\* s contains t as a substring
Contains(s, t) ==
    \E i \in 1..(Len(s) - Len(t) + 1) : SubSeq(s, i, i + Len(t) - 1) = t

(***************************************************************************)
(* class SigpairAdmin                                                      *)
(***************************************************************************)
\* a constructor that stores its arguments in the wrong fields
SigpairAdminSwapped(baseUrl, adminToken) == [baseUrl |-> adminToken, adminToken |-> baseUrl]

SigpairAdmin(baseUrl, adminToken) == [baseUrl |-> baseUrl, adminToken |-> adminToken]

\* createPostRequest joining base address and route without the "/"
createPostRequestNoSlash(this, route) ==
    [url |-> this.baseUrl \o route,
     headers |-> ("Content-Type" :> "application/json")
                 @@ ("Authorization" :> ("Bearer " \o this.adminToken))]

createPostRequest(this, route) ==
    [url |-> this.baseUrl \o "/" \o route,
     headers |-> ("Content-Type" :> "application/json")
                 @@ ("Authorization" :> ("Bearer " \o this.adminToken))]

CreateUserRoute == "v1/create-user"
GenUserTokenRoute == "v1/user-token"

Route(o) == IF o = "createUser" THEN CreateUserRoute ELSE GenUserTokenRoute

DefaultLifetime == 3600

\* lifetime || 3600: the default also replaces a supplied 0
CoalesceFalsy(v, d) == IF Nullish(v) \/ v = Num(0) THEN d ELSE v

\* lifetime ?? 3600
Coalesce(v, d) == IF Nullish(v) THEN d ELSE v

CreateUserPayload(a) == [name |-> a.name]

GenUserTokenPayload(a) ==
    [user_id |-> a.userId, lifetime |-> Coalesce(a.lifetime, Num(DefaultLifetime))]

Payload(o, a) == IF o = "createUser" THEN CreateUserPayload(a) ELSE GenUserTokenPayload(a)

\* the field the domain method projects out of the decoded body
ResultField(o) == IF o = "createUser" THEN "user_id" ELSE "token"

(***************************************************************************)
(* axios.post: what the exchange can do, and how axios settles its promise *)
(***************************************************************************)
Response(status, statusText, data) ==
    [kind |-> "response", status |-> status, statusText |-> statusText, data |-> data]
TransportFailure(desc) == [kind |-> "transport", desc |-> desc]
Thrown(e) == [kind |-> "thrown", error |-> e]
NoReply == [kind |-> "none"]

Replies ==
    { Response(200, "OK", Obj([user_id |-> Num(10000)])),
      Response(200, "OK", Obj([user_id |-> Num(7), token |-> Str("abc")])),
      Response(200, "OK", Obj([token |-> Str("xyz")])),
      Response(200, "OK", Null),
      Response(201, "Created", Obj([user_id |-> Num(7), token |-> Str("abc")])),
      Response(204, "No Content", Str("")),
      Response(404, "Not Found", Str("")),
      TransportFailure("connect ECONNREFUSED 127.0.0.1:8080"),
      Thrown(TypeError("Invalid URL")) }

\* axios' default validateStatus
ValidateStatus(status) == status >= 200 /\ status < 300

\* the AxiosResponse object built from what the server sent
AxiosResponse(r) ==
    [type |-> "object", status |-> r.status, statusText |-> r.statusText, data |-> r.data]

\* the settlement of the promise axios.post returned, given what the exchange did
AxiosSettle(r) ==
    CASE r.kind = "response" ->
            IF ValidateStatus(r.status)
            THEN Fulfilled(AxiosResponse(r))
            ELSE Rejected(AxiosError("Request failed with status code " \o ToString(r.status),
                                     AxiosResponse(r)))
      [] r.kind = "transport" -> Rejected(AxiosError(r.desc, NoResponse))
      [] r.kind = "thrown" -> Rejected(r.error)

(***************************************************************************)
(* handleRequest                                                           *)
(***************************************************************************)
\* a status check that accepts every 2xx
StatusOkAny2xx(status) == status >= 200 /\ status < 300

StatusOk(status) == status = 200

\* error.response?.statusText and error.response?.status inside a template
OptStatusText(resp) == IF Nullish(resp) THEN "undefined" ELSE resp.statusText
OptStatus(resp) == IF Nullish(resp) THEN "undefined" ELSE ToString(resp.status)

StatusMessage(statusText, status) ==
    "Failed to make request, error:" \o statusText \o ", code: " \o status

\* the try block: what it returns or throws
TryBlock(ax) ==
    IF ax.state = "fulfilled"
    THEN IF StatusOk(ax.value.status)
         THEN Fulfilled(ax.value.data)
         ELSE Rejected(Error(StatusMessage(ax.value.statusText, ToString(ax.value.status))))
    ELSE ax

\* the catch block, applied to what the try block threw
CatchBlock(error) ==
    IF error.type = "AxiosError"
    THEN Rejected(Error(StatusMessage(OptStatusText(error.response), OptStatus(error.response))))
    ELSE Rejected(Error("Failed to make request, error:" \o TemplateStr(error)))

handleRequest(ax) ==
    LET t == TryBlock(ax)
    IN  IF t.state = "fulfilled" THEN t ELSE CatchBlock(t.reason)

(***************************************************************************)
(* The domain methods, cut at their awaits                                 *)
(***************************************************************************)
Names == {"John Doe", "Ann"}
UserIds == {10000}
Lifetimes == {Undefined, Num(0), Num(60)}

\* first segment of createUser / genUserToken: runs createPostRequest and
\* suspends on its promise
StartCall(c, o, a) ==
    /\ pc[c] = "idle"
    /\ pc' = [pc EXCEPT ![c] = "built"]
    /\ op' = [op EXCEPT ![c] = o]
    /\ args' = [args EXCEPT ![c] = a]
    /\ built' = [built EXCEPT ![c] = createPostRequest(client, Route(o))]
    /\ UNCHANGED <<sent, reply, hr, out>>

\* call slots are taken in the order the calls are made
NextSlot(c) == IF c = 1 THEN TRUE ELSE pc[c - 1] # "idle"

CallCreateUser(c, name) ==
    /\ NextSlot(c)
    /\ StartCall(c, "createUser", [name |-> name])
    /\ UNCHANGED <<ctor, client, mainVars>>

CallGenUserToken(c, uid, lifetime) ==
    /\ NextSlot(c)
    /\ StartCall(c, "genUserToken", [userId |-> uid, lifetime |-> lifetime])
    /\ UNCHANGED <<ctor, client, mainVars>>

\* a post that is issued twice
AxiosPostTwice(c, request) == sent' = [sent EXCEPT ![c] = Append(Append(@, request), request)]

\* axios.post(url, payload, {headers}): one request goes out
AxiosPost(c, request) == sent' = [sent EXCEPT ![c] = Append(@, request)]

\* second segment: build the payload, enter handleRequest, which posts and
\* suspends on the exchange
Post(c) ==
    /\ pc[c] = "built"
    /\ AxiosPost(c, [method |-> "POST", url |-> built[c].url,
                     headers |-> built[c].headers, data |-> Payload(op[c], args[c])])
    /\ pc' = [pc EXCEPT ![c] = "awaiting"]
    /\ UNCHANGED <<ctor, client, op, args, built, reply, hr, out, mainVars>>

\* the exchange of call c completes with r; handleRequest resumes and settles
Exchange(c, r) ==
    /\ pc[c] = "awaiting"
    /\ reply' = [reply EXCEPT ![c] = r]
    /\ hr' = [hr EXCEPT ![c] = handleRequest(AxiosSettle(r))]
    /\ pc' = [pc EXCEPT ![c] = "settled"]
    /\ UNCHANGED <<ctor, client, op, args, built, sent, out, mainVars>>

\* the response kept in one slot shared by all calls: the oldest one not yet consumed
AwaitedShared(c) ==
    LET S == {d \in Calls : pc[d] = "settled"}
    IN  hr[CHOOSE d \in S : \A e \in S : d <= e]

\* `const response = await handleRequest(...)`: the settlement call c resumes with
Awaited(c) == hr[c]

\* `return response.user_id` / `return response.token`
Project(o, settled) ==
    IF settled.state = "rejected"
    THEN settled
    ELSE IF Nullish(settled.value)
         THEN Rejected(TypeError("Cannot read properties of " \o TemplateStr(settled.value)
                                 \o " (reading '" \o ResultField(o) \o "')"))
         ELSE Fulfilled(Field(settled.value, ResultField(o)))

\* last segment of the domain method
Complete(c) ==
    /\ pc[c] = "settled"
    /\ out' = [out EXCEPT ![c] = Project(op[c], Awaited(c))]
    /\ pc' = [pc EXCEPT ![c] = IF out'[c].state = "fulfilled" THEN "returned" ELSE "failed"]
    /\ UNCHANGED <<ctor, client, op, args, built, sent, reply, hr, mainVars>>

(***************************************************************************)
(* main                                                                    *)
(***************************************************************************)
MainBaseUrl == "http://localhost:8080"
MainAdminToken == "1ec3804afc23258f767b9d38825dc7ab0a2ea44ef4adf3254e4d7c6059c3b55a"

\* main passing on the user id createUser returned
MainTokenArgsFromUser(uid) ==
    [userId |-> IF uid.type = "number" THEN uid.num ELSE 0, lifetime |-> Num(3600)]

\* the arguments of main's genUserToken call, with main's local userId in scope
MainTokenArgs(uid) == [userId |-> 10000, lifetime |-> Num(3600)]

\* const userId = await client.createUser("John Doe"), up to the await
MainStart ==
    /\ mpc = "start"
    /\ StartCall(1, "createUser", [name |-> "John Doe"])
    /\ mpc' = "awaitCreateUser"
    /\ UNCHANGED <<ctor, client, userId, printed>>

\* createUser returned: bind userId, call genUserToken, suspend
MainCallGenUserToken ==
    /\ mpc = "awaitCreateUser"
    /\ pc[1] = "returned"
    /\ userId' = out[1].value
    /\ StartCall(2, "genUserToken", MainTokenArgs(userId'))
    /\ mpc' = "awaitGenUserToken"
    /\ UNCHANGED <<ctor, client, printed>>

\* genUserToken returned: console.log(userId); console.log(token)
MainPrint ==
    /\ mpc = "awaitGenUserToken"
    /\ pc[2] = "returned"
    /\ printed' = printed \o <<userId, out[2].value>>
    /\ mpc' = "done"
    /\ UNCHANGED <<ctor, client, callVars, userId>>

\* an awaited call failed: main's promise rejects
MainRejected ==
    /\ \/ mpc = "awaitCreateUser" /\ pc[1] = "failed"
       \/ mpc = "awaitGenUserToken" /\ pc[2] = "failed"
    /\ mpc' = "rejected"
    /\ UNCHANGED <<ctor, client, callVars, userId, printed>>

(***************************************************************************)
(* Specifications                                                          *)
(***************************************************************************)
CtorArgs == { <<MainBaseUrl, MainAdminToken>>, <<"https://node.example", "s3cret">> }

InitCalls ==
    /\ pc = [c \in Calls |-> "idle"]
    /\ op = [c \in Calls |-> "none"]
    /\ args = [c \in Calls |-> Nothing]
    /\ built = [c \in Calls |-> Nothing]
    /\ sent = [c \in Calls |-> <<>>]
    /\ reply = [c \in Calls |-> NoReply]
    /\ hr = [c \in Calls |-> Pending]
    /\ out = [c \in Calls |-> Pending]
    /\ mpc = "start"
    /\ userId = Undefined
    /\ printed = <<>>

\* a client constructed by a caller of the library
Init ==
    /\ ctor \in CtorArgs
    /\ client = SigpairAdmin(ctor[1], ctor[2])
    /\ InitCalls

Next ==
    \/ \E c \in Calls, name \in Names : CallCreateUser(c, name)
    \/ \E c \in Calls, uid \in UserIds, lifetime \in Lifetimes : CallGenUserToken(c, uid, lifetime)
    \/ \E c \in Calls : Post(c)
    \/ \E c \in Calls, r \in Replies : Exchange(c, r)
    \/ \E c \in Calls : Complete(c)

Spec == Init /\ [][Next]_vars

\* the client main constructs
InitMain ==
    /\ ctor = <<MainBaseUrl, MainAdminToken>>
    /\ client = SigpairAdmin(ctor[1], ctor[2])
    /\ InitCalls

NextMain ==
    \/ MainStart
    \/ MainCallGenUserToken
    \/ MainPrint
    \/ MainRejected
    \/ \E c \in Calls : Post(c)
    \/ \E c \in Calls, r \in Replies : Exchange(c, r)
    \/ \E c \in Calls : Complete(c)

SpecMain == InitMain /\ [][NextMain]_vars

(***************************************************************************)
(* Properties                                                              *)
(***************************************************************************)
Done(c) == pc[c] \in {"returned", "failed"}
Posted(c) == pc[c] \notin {"idle", "built"}
Got200(c) == reply[c].kind = "response" /\ reply[c].status = 200
HasResultField(c) ==
    /\ reply[c].data.type = "object"
    /\ ResultField(op[c]) \in DOMAIN reply[c].data.fields

\* C1: a call that returns a value had an exchange with status 200 and a body
\* carrying the expected field (user_id, token); every other exchange makes
\* the call fail.
C1_ReturnOnlyWithResultField ==
    \A c \in Calls :
        /\ pc[c] = "returned" => Got200(c) /\ HasResultField(c)
        /\ Done(c) /\ ~(Got200(c) /\ HasResultField(c)) => pc[c] = "failed"

\* C2: a transport-level failure makes the call fail with a message that
\* contains the underlying error's description.
C2_TransportMessageHasDescription ==
    \A c \in Calls :
        Done(c) /\ reply[c].kind = "transport" =>
            /\ pc[c] = "failed"
            /\ Contains(out[c].reason.message, reply[c].desc)

\* C3: every response whose status is not 200 (other 2xx included) makes the
\* call fail with a message containing the status code and the status text;
\* nothing is returned.
C3_Non200Fails ==
    \A c \in Calls :
        Done(c) /\ reply[c].kind = "response" /\ reply[c].status # 200 =>
            /\ pc[c] = "failed"
            /\ out[c].state = "rejected"
            /\ Contains(out[c].reason.message, ToString(reply[c].status))
            /\ Contains(out[c].reason.message, reply[c].statusText)

C3_Witness ==
    \E c, d \in Calls :
        /\ pc[c] = "failed" /\ reply[c].kind = "response" /\ reply[c].status = 201
        /\ pc[d] = "failed" /\ reply[d].kind = "response" /\ reply[d].status = 404

\* C4: every failure of a domain call is the failure handleRequest raised,
\* passed on unchanged; the domain method raises none of its own.
C4_FailureIsExecutorFailure ==
    \A c \in Calls :
        pc[c] = "failed" =>
            /\ hr[c].state = "rejected"
            /\ out[c] = hr[c]
            /\ out[c].reason.type = "Error"

\* C5: createUser(name) posts to baseUrl + "/v1/create-user" with body
\* {"name": name}; on a 200 response that has a user_id field it returns
\* that field unchanged.
C5_CreateUser ==
    \A c \in Calls :
        op[c] = "createUser" =>
            /\ Posted(c) =>
                /\ Len(sent[c]) >= 1
                /\ \A i \in 1..Len(sent[c]) :
                    /\ sent[c][i].method = "POST"
                    /\ sent[c][i].url = ctor[1] \o "/v1/create-user"
                    /\ sent[c][i].data = [name |-> args[c].name]
            /\ Done(c) /\ Got200(c) /\ HasResultField(c) =>
                /\ pc[c] = "returned"
                /\ out[c] = Fulfilled(reply[c].data.fields["user_id"])

C5_Witness ==
    \E c \in Calls :
        /\ op[c] = "createUser" /\ args[c].name = "Ann"
        /\ pc[c] = "returned" /\ out[c] = Fulfilled(Num(7))

\* C6: genUserToken posts to baseUrl + "/v1/user-token" with body
\* {"user_id": userId, "lifetime": L}: L is the supplied lifetime whenever
\* one is supplied (0 included) and 3600 only when it is omitted.
C6_GenUserTokenBody ==
    \A c \in Calls :
        op[c] = "genUserToken" /\ Posted(c) =>
            /\ Len(sent[c]) >= 1
            /\ \A i \in 1..Len(sent[c]) :
                /\ sent[c][i].method = "POST"
                /\ sent[c][i].url = ctor[1] \o "/v1/user-token"
                /\ sent[c][i].data =
                      [user_id |-> args[c].userId,
                       lifetime |-> IF args[c].lifetime = Undefined
                                    THEN Num(3600)
                                    ELSE args[c].lifetime]

C6_Witness ==
    \E c, d \in Calls :
        /\ op[c] = "genUserToken" /\ args[c].lifetime = Num(0)
        /\ Posted(c) /\ sent[c][1].data.lifetime = Num(0)
        /\ op[d] = "genUserToken" /\ args[d].lifetime = Undefined
        /\ Posted(d) /\ sent[d][1].data.lifetime = Num(3600)

\* C7: every request of every call carries Authorization: Bearer c and
\* Content-Type: application/json, c being the credential given at
\* construction; the client's base address and credential stay as constructed.
C7_HeadersAndClientFixed ==
    /\ client = [baseUrl |-> ctor[1], adminToken |-> ctor[2]]
    /\ \A c \in Calls :
        /\ Posted(c) => Len(sent[c]) >= 1
        /\ \A i \in 1..Len(sent[c]) :
            /\ DOMAIN sent[c][i].headers = {"Authorization", "Content-Type"}
            /\ sent[c][i].headers["Authorization"] = "Bearer " \o ctor[2]
            /\ sent[c][i].headers["Content-Type"] = "application/json"

C7_Witness ==
    /\ Done(1) /\ Posted(2)
    /\ op[1] # op[2]
    /\ sent[2][1].headers["Authorization"] = "Bearer " \o ctor[2]

\* C8: every invocation issues exactly one request, whatever the exchange
\* does; nothing is retried, and once the exchange has completed the call's
\* next step completes it.
C8_OneRequest ==
    \A c \in Calls : Len(sent[c]) = IF Posted(c) THEN 1 ELSE 0

C8_CompletesAfterExchange ==
    \A c \in Calls :
        pc[c] = "settled" /\ pc'[c] # pc[c] => Done(c)' /\ sent'[c] = sent[c]

C8_ExactlyOneExchange == [](C8_OneRequest) /\ [][C8_CompletesAfterExchange]_vars

C8_Witness ==
    \E c, d \in Calls :
        /\ pc[c] = "failed" /\ reply[c].kind = "transport" /\ Len(sent[c]) = 1
        /\ pc[d] = "returned" /\ Len(sent[d]) = 1

\* C9: with calls in flight concurrently, every call's request and outcome
\* are functions of its own arguments and its own exchange's reply, and a
\* step of one call changes nothing of another call nor of the client.
C9_OwnOutcome ==
    \A c \in Calls :
        /\ Posted(c) => sent[c] = <<[method |-> "POST",
                                     url |-> ctor[1] \o "/" \o Route(op[c]),
                                     headers |-> createPostRequest(client, Route(op[c])).headers,
                                     data |-> Payload(op[c], args[c])]>>
        /\ Done(c) => out[c] = Project(op[c], handleRequest(AxiosSettle(reply[c])))

C9_NoInterference ==
    /\ client' = client
    /\ \A c \in Calls :
        pc'[c] = pc[c] =>
            /\ op'[c] = op[c] /\ args'[c] = args[c] /\ built'[c] = built[c]
            /\ sent'[c] = sent[c] /\ reply'[c] = reply[c]
            /\ hr'[c] = hr[c] /\ out'[c] = out[c]

C9_Independent == [](C9_OwnOutcome) /\ [][C9_NoInterference]_vars

\* the later call has returned while the earlier one, whose exchange failed,
\* is still in flight
C9_Witness ==
    /\ pc[2] = "returned"
    /\ pc[1] = "settled" /\ hr[1].state = "rejected"

\* C10: main sends the user-token request only after the create-user
\* exchange completed with status 200; when createUser fails no user-token
\* request is sent and nothing is printed; the user-token request carries
\* user_id 10000 and lifetime 3600 whatever createUser returned.
C10_Main ==
    /\ sent[2] # <<>> => pc[1] = "returned" /\ Got200(1)
    /\ pc[1] = "failed" => sent[2] = <<>> /\ pc[2] = "idle" /\ printed = <<>>
    /\ \A i \in 1..Len(sent[2]) :
        /\ sent[2][i].url = MainBaseUrl \o "/v1/user-token"
        /\ sent[2][i].data = [user_id |-> 10000, lifetime |-> Num(3600)]
    /\ printed # <<>> => pc[1] = "returned" /\ pc[2] = "returned"

C10_Witness ==
    /\ sent[2] # <<>>
    /\ userId = Num(7)
    /\ mpc = "done"

====
